---------------------------- MODULE Spec2Model ----------------------------
(***************************************************************************)
(* A model of the uid_store crate: the xoshiro256** generator behind a     *)
(* process-wide lock (src/src/random.rs), the base62 codec, the random     *)
(* string generators and the deduplicating UidStore (src/src/lib.rs).      *)
(*                                                                         *)
(* Machine integers are sequences of bits, least significant bit first     *)
(* (x[1] is bit 0), so that 64-bit wrapping arithmetic, shifts, rotations  *)
(* and xor are computed exactly.  Strings are sequences of Unicode code    *)
(* points.  Rust arrays are 0-based and TLA+ sequences 1-based: s[k] of    *)
(* the source is s[k+1] here, CHARSET[idx] is CHARSET[idx + 1].            *)
(*                                                                         *)
(* The fields of a record are written in the order in which their names   *)
(* first appear in the module, which is the order TLC keeps them in: a     *)
(* record is then never reordered while another worker reads it.           *)
(***************************************************************************)
EXTENDS Integers, Sequences, FiniteSets, TLC

VARIABLES
    s,        \* RND.s: the four 64-bit words of the generator
    nseeds,   \* ghost: how many times seed() has run
    ndraws,   \* ghost: how many times PseudoRandom::next_u64 has run
    items,    \* UidStore.items: the HashSet<String>
    pc,       \* "idle", or the issue function whose loop is retrying
    len,      \* the `length` argument of the loop that is retrying
    op,       \* the public call in progress or last completed: [name, arg]
    ret,      \* what the last completed call returned
    pre,      \* ghost: items when the call in `op` was entered
    spre,     \* ghost: RND.s when the call in `op` was entered
    issued,   \* ghost: every string returned by an issue function, in order
    nmake,    \* ghost: how many make_unique / make_unique_u16 calls the behaviour made
    ncalls,   \* ghost: how many public calls the behaviour made
    lock,     \* the Mutex of RND: 0 when free, or the thread that holds it
    tpc,      \* for each thread, where it is in random::next_u32 / next_u64
    tloc,     \* for each thread, its call (kind) and the local `next` (out)
    done      \* ghost: the draws that have returned: [kind, val], in order

vars == <<s, nseeds, ndraws, items, pc, len, op, ret, pre, spre, issued, nmake,
          ncalls, lock, tpc, tloc, done>>

\* the variables of the threads that draw concurrently
tvars == <<lock, tpc, tloc, done>>

\* the variables of a UidStore and its caller
storeVars == <<items, pc, len, op, ret, pre, spre, issued, nmake, ncalls>>

-----------------------------------------------------------------------------
(* Bounds of the model.                                                    *)

\* the longest `length` passed to a generator or an issue function
MaxLen == 1
\* how many public UidStore calls one behaviour makes
MaxCalls == 2
\* how many draws one behaviour makes in the retries of a loop, and in the
\* generator specification
MaxDraws == 6
\* the codec is applied to every number 0..MaxNum (and to the boundary values)
MaxNum == 70
\* the longest `length` passed to a generator called on its own
MaxStr == 3
\* how many threads draw concurrently
NThreads == 2
\* how many draws the threads make between them in one behaviour
MaxThreadCalls == 3

-----------------------------------------------------------------------------
(* Fixed-width unsigned integers as bit sequences.                         *)

\* u64 / usize (a 64-bit target: u64::MAX as usize is used by the source)
W64 == 64
W32 == 32

\* the function f on 1..n as an explicit sequence of n values
Tuple(f, n) == SubSeq(f, 1, n)

Zeros(n) == Tuple([i \in 1..n |-> 0], n)
Ones(n) == Tuple([i \in 1..n |-> 1], n)

\* the w-bit value of a natural k below 2^30
FromNat(k, w) == Tuple([i \in 1..w |-> IF i > 30 THEN 0 ELSE (k \div 2^(i - 1)) % 2], w)

\* zero-extension (`as usize` of a u32) and truncation (`as u64`, `as u32`)
Resize(x, w) == IF Len(x) >= w THEN SubSeq(x, 1, w) ELSE x \o Zeros(w - Len(x))

Xor(x, y) == Tuple([i \in 1..Len(x) |-> (x[i] + y[i]) % 2], Len(x))

\* x << k on a fixed width: the high bits are lost
Shl(x, k) == Zeros(k) \o SubSeq(x, 1, Len(x) - k)

\* x >> k, the result k bits narrower
ShrNarrow(x, k) == SubSeq(x, k + 1, Len(x))

\* x.rotate_left(k)
RotateLeft(x, k) == SubSeq(x, Len(x) - k + 1, Len(x)) \o SubSeq(x, 1, Len(x) - k)

\* Arithmetic is done on the bytes of a value (least significant first, widths
\* are multiples of 8), so that every intermediate result is a small integer.
ToBytes(x) ==
    Tuple([j \in 1..(Len(x) \div 8) |->
            LET o == 8 * (j - 1)
            IN x[o + 1] + 2 * x[o + 2] + 4 * x[o + 3] + 8 * x[o + 4]
               + 16 * x[o + 5] + 32 * x[o + 6] + 64 * x[o + 7] + 128 * x[o + 8]],
          Len(x) \div 8)

FromBytes(b) ==
    Tuple([i \in 1..(8 * Len(b)) |-> (b[(i - 1) \div 8 + 1] \div 2^((i - 1) % 8)) % 2],
          8 * Len(b))

RECURSIVE MulAddBytes(_, _, _, _)
\* acc holds the low bytes of the result, c the carry into the next one
MulAddBytes(b, k, c, acc) ==
    IF Len(acc) = Len(b) THEN acc
    ELSE LET r == b[Len(acc) + 1] * k + c
         IN MulAddBytes(b, k, r \div 256, Append(acc, r % 256))

\* (x * k + a) modulo 2^Len(x), for naturals k and a below 2^22
WrappingMulAdd(x, k, a) == FromBytes(MulAddBytes(ToBytes(x), k, a, <<>>))

\* x.wrapping_mul(k) for a constant k below 2^22
WrappingMul(x, k) == WrappingMulAdd(x, k, 0)

RECURSIVE LessBytes(_, _, _)
\* a < b, comparing from byte j down
LessBytes(a, b, j) ==
    IF j = 0 THEN FALSE
    ELSE IF a[j] # b[j] THEN a[j] < b[j]
    ELSE LessBytes(a, b, j - 1)

\* x < y for two values of the same width
Less(x, y) == LessBytes(ToBytes(x), ToBytes(y), Len(x) \div 8)
Leq(x, y) == ~Less(y, x)

RECURSIVE SubBytes(_, _, _, _)
SubBytes(a, b, borrow, acc) ==
    IF Len(acc) = Len(a) THEN acc
    ELSE LET r == a[Len(acc) + 1] - b[Len(acc) + 1] - borrow
         IN SubBytes(a, b, IF r < 0 THEN 1 ELSE 0, Append(acc, (r + 256) % 256))

\* x - y for x >= y
Sub(x, y) == FromBytes(SubBytes(ToBytes(x), ToBytes(y), 0, <<>>))

RECURSIVE RemBytes(_, _, _, _)
\* the remainder r after one more bit of x: 2 * r + bit, less m if that reaches m
RemStep(m, r2) == IF LessBytes(r2, m, Len(m)) THEN r2 ELSE SubBytes(r2, m, 0, <<>>)

\* long division, most significant bit first; r and m (bytes) are a byte wider
\* than x, so that 2 * r + 1 fits (r is never empty: the test has r computed
\* at each step)
RemBytes(x, m, i, r) ==
    IF i = 0 \/ r = <<>> THEN r
    ELSE RemBytes(x, m, i - 1, RemStep(m, MulAddBytes(r, 2, x[i], <<>>)))

\* x % m for m > 0
Rem(x, m) ==
    Resize(FromBytes(RemBytes(x, ToBytes(Resize(m, Len(x) + 8)), Len(x),
                              ToBytes(Zeros(Len(x) + 8)))),
           Len(x))

RECURSIVE DivSmallBytes(_, _, _, _)
\* long division, most significant byte first: q holds the high bytes of the
\* quotient, r the remainder so far
DivSmallBytes(b, k, r, q) ==
    IF Len(q) = Len(b) THEN [quot |-> FromBytes(q), rem |-> r]
    ELSE LET r2 == 256 * r + b[Len(b) - Len(q)]
         IN DivSmallBytes(b, k, r2 % k, <<r2 \div k>> \o q)

\* x / k and x % k for a divisor k below 2^22
DivSmall(x, k) == DivSmallBytes(ToBytes(x), k, 0, <<>>)

RECURSIVE FromDecBytes(_, _)
\* acc * 10^Len(d) + d, on bytes
FromDecBytes(d, acc) ==
    IF d = <<>> THEN acc
    ELSE FromDecBytes(Tail(d), MulAddBytes(acc, 10, Head(d), <<>>))

\* the w-bit value of a decimal literal given digit by digit
FromDec(d, w) == FromBytes(FromDecBytes(d, ToBytes(Zeros(w))))

U16Max == FromDec(<<6, 5, 5, 3, 5>>, W64)
U32Max == Ones(W32) \o Zeros(W64 - W32)
U64Max == Ones(W64)


-----------------------------------------------------------------------------
(* src/src/random.rs: PseudoRandom, xoshiro256**.                          *)

\* the four literals of seed(), as written in the source
SeedConst0 == FromDec(<<4,6,9,0,4,8,1,0,5,0,1,1,7,8,9,2,5,2,7>>, W64)
SeedConst1 == FromDec(<<1,3,6,8,2,1,2,6,1,3,1,9,3,1,0,5,2,7,2,5>>, W64)
SeedConst2 == FromDec(<<9,6,3,9,2,6,4,9,7,1,9,3,6,2,6,2,8,8,5>>, W64)
SeedConst3 == FromDec(<<6,4,1,2,7,9,7,4,8,1,0,7,3,1,2,9,5,0,2>>, W64)
SeedScale == 50000

\* Clock readings `now` (nanoseconds since the epoch; below 2^64, so the u128
\* product now * 50000 does not overflow and `as u64` keeps its low 64 bits):
\* 0 is what seed() uses when duration_since fails (a clock before the epoch);
\* the second is a reading of 14 Nov 2023; the third is the reading for which
\* s[0] is 0 again after two draws.
ClockErr == Zeros(W64)
Clock2023 == FromDec(<<1,7,0,0,0,0,0,0,0,0,0,0,0,0,0,0,1,2,6>>, W64)
Clock2113 == FromDec(<<4,5,2,3,9,0,5,6,4,5,3,0,5,2,1,0,4,0,1>>, W64)
Times == {ClockErr, Clock2023, Clock2113}

ZeroWord == Zeros(W64)

\* PseudoRandom::seed: the new s, from the clock reading `now`
seed(now) ==
    << Xor(now, SeedConst0),
       Xor(WrappingMul(now, SeedScale), SeedConst1),
       Xor(now, SeedConst2),
       Xor(now, SeedConst3) >>

\* `if self.s[0] == 0`
NeedsSeed(st) == st[1] = ZeroWord

\* the output of one draw from the (seeded) state st
Output(st) == WrappingMul(RotateLeft(WrappingMul(st[2], 5), 7), 9)

AdvanceUnshifted(st) ==
    <<Xor(st[1], Xor(st[4], st[2])), Xor(st[2], Xor(st[3], st[1])),
      Xor(st[3], st[1]), RotateLeft(Xor(st[4], st[2]), 45)>>

\* the state after one draw from the (seeded) state st
Advance(st) ==
    LET v   == Shl(st[2], 17)
        s2a == Xor(st[3], st[1])
        s3a == Xor(st[4], st[2])
        s1a == Xor(st[2], s2a)
        s0a == Xor(st[1], s3a)
        s2b == Xor(s2a, v)
        s3b == RotateLeft(s3a, 45)
    IN <<s0a, s1a, s2b, s3b>>

\* one draw from the seeded state st: the value returned and the new state
DrawFrom(st, seeded) == [s |-> Advance(st), seeded |-> seeded, val |-> Output(st)]

\* PseudoRandom::next_u64 on state st: the draws it can make, one for each
\* reading of the clock when seed() runs
PseudoRandom_next_u64(st) ==
    IF NeedsSeed(st) THEN {DrawFrom(seed(now), TRUE) : now \in Times}
    ELSE {DrawFrom(st, FALSE)}

\* `(d >> 32) as u32` of the draw d
Top32(d) == [s |-> d.s, seeded |-> d.seeded, val |-> ShrNarrow(d.val, 32)]

\* PseudoRandom::next_u32: the top 32 bits of one next_u64
PseudoRandom_next_u32(st) == {Top32(d) : d \in PseudoRandom_next_u64(st)}

\* The generator as the callers see it: g = [s, seeds, draws] is RND.s with the
\* number of seed() runs and of draws so far.  random::next_u32 / next_u64 take
\* the lock, draw and release; one caller at a time here.  Each gives the set
\* of draws it can make.
AfterDraw(g, d) ==
    [val |-> d.val,
     g |-> [s |-> d.s,
            seeds |-> g.seeds + (IF d.seeded THEN 1 ELSE 0),
            draws |-> g.draws + 1]]

random_next_u32(g) == {AfterDraw(g, d) : d \in PseudoRandom_next_u32(g.s)}

random_next_u64(g) == {AfterDraw(g, d) : d \in PseudoRandom_next_u64(g.s)}

-----------------------------------------------------------------------------
(* src/src/lib.rs: the alphabets.                                          *)

\* "ABCDEFGHIJKLMNOPQRSTUVWXYZ" "abcdefghijklmnopqrstuvwxyz" "0123456789"
CHARSET ==
    Tuple([i \in 1..26 |-> 64 + i], 26) \o Tuple([i \in 1..26 |-> 96 + i], 26)
    \o Tuple([i \in 1..10 |-> 47 + i], 10)

\* the readable alphabet with 'l' left in
READABLE_CHARSET_l ==
    <<65, 66, 67, 68, 69, 70, 71, 72, 74, 75, 77, 78, 80, 81, 82, 83, 84, 85, 86, 87, 88, 89, 90>>
    \o <<97, 98, 99, 100, 101, 102, 103, 104, 106, 107, 108, 109, 110, 112, 113, 114, 115, 116, 117, 118, 119, 120, 121, 122>>
    \o <<49, 50, 51, 52, 53, 54, 55, 56, 57>>

\* "ABCDEFGHJKMNPQRSTUVWXYZ" "abcdefghjkmnpqrstuvwxyz" "123456789"
READABLE_CHARSET ==
    <<65, 66, 67, 68, 69, 70, 71, 72, 74, 75, 77, 78, 80, 81, 82, 83, 84, 85, 86, 87, 88, 89, 90>>
    \o <<97, 98, 99, 100, 101, 102, 103, 104, 106, 107, 109, 110, 112, 113, 114, 115, 116, 117, 118, 119, 120, 121, 122>>
    \o <<49, 50, 51, 52, 53, 54, 55, 56, 57>>

\* "0123456789"
NUMSET == Tuple([i \in 1..10 |-> 47 + i], 10)

\* the characters the documentation of next_human / human_random_string calls
\* easily confused and the specification lists: I, l, 1, O, 0
Confusable == {73, 108, 49, 79, 48}

\* str.len(): the length in bytes of the UTF-8 encoding
Utf8Len(c) == IF c < 128 THEN 1 ELSE IF c < 2048 THEN 2 ELSE IF c < 65536 THEN 3 ELSE 4

RECURSIVE StrLen(_)
StrLen(str) == IF str = <<>> THEN 0 ELSE Utf8Len(Head(str)) + StrLen(Tail(str))

-----------------------------------------------------------------------------
(* src/src/lib.rs: the base62 codec.                                       *)

RECURSIVE NumberToUidLoop(_, _)
\* `next = uid % 62; uid = uid / 62; result.push(CHARSET[next])`, dm = (uid / 62, uid % 62)
NumberToUidPush(dm, result) == NumberToUidLoop(dm.quot, Append(result, CHARSET[dm.rem + 1]))

\* `while uid > 0 { ... }`
NumberToUidLoop(uid, result) ==
    IF uid = Zeros(Len(uid)) THEN result
    ELSE NumberToUidPush(DivSmall(uid, Len(CHARSET)), result)

\* number_to_uid without `if uid == 0`: the loop alone
number_to_uid_loop_only(uid) == NumberToUidLoop(uid, <<>>)

number_to_uid(uid) ==
    IF uid = Zeros(Len(uid)) THEN <<65>> ELSE NumberToUidLoop(uid, <<>>)

None == [val |-> <<>>, kind |-> "none"]
Some(v) == [val |-> v, kind |-> "some"]
\* an arithmetic overflow in a build with overflow checks
Panic == [val |-> <<>>, kind |-> "panic"]

\* the value of one character, or -1 for `return None`
CharValue(c) ==
    IF c >= 65 /\ c <= 90 THEN c - 65
    ELSE IF c >= 97 /\ c <= 122 THEN c - 97 + 26
    ELSE IF c >= 48 /\ c <= 57 THEN c - 48 + 26 + 26
    ELSE -1

\* the order in which uid_to_number visits the characters: uid.chars().rev()
RECURSIVE Rev(_)
Rev(str) == IF str = <<>> THEN <<>> ELSE Append(Rev(Tail(str)), Head(str))

\* the characters in the order written: uid.chars() without .rev()
CharsForward(uid) == uid

CharsRev(uid) == Rev(uid)

\* result * 62 + value, a byte wider than usize so that an overflow shows
MulAddWide(result, value) == WrappingMulAdd(Resize(result, W64 + 8), 62, value)

RECURSIVE UidToNumberLoop(_, _, _, _)
UidToNumberLoop(cs, i, result, checked) ==
    IF i > Len(cs) THEN Some(result)
    ELSE IF CharValue(cs[i]) < 0 THEN None
    ELSE LET wide == MulAddWide(result, CharValue(cs[i]))
         IN IF SubSeq(wide, W64 + 1, W64 + 8) # Zeros(8) /\ checked THEN Panic
            ELSE UidToNumberLoop(cs, i + 1, Resize(wide, W64), checked)

\* uid_to_number; `checked` says whether the build checks arithmetic overflow
\* (it panics) or not (usize arithmetic wraps)
uid_to_number(uid, checked) == UidToNumberLoop(CharsRev(uid), 1, Zeros(W64), checked)

-----------------------------------------------------------------------------
(* src/src/lib.rs: the random string generators.                           *)

\* `random::next_u32() as usize % charset.len()`
DrawIndex(val, charset) == DivSmall(val, Len(charset)).rem

RECURSIVE MapCollect(_, _, _, _)
\* `let idx = d as usize % charset.len(); charset[idx] as char` for the draw d
MapPush(charset, length, d, acc) ==
    MapCollect(charset, length, d.g, Append(acc, charset[DrawIndex(d.val, charset) + 1]))

\* the collection over `0..=length`: one character too many
MapCollectInclusive(charset, length, g, acc) ==
    IF Len(acc) > length THEN {[g |-> g, str |-> acc]}
    ELSE UNION {MapPush(charset, length, d, acc) : d \in random_next_u32(g)}

\* `(0..length).map(|_| { let idx = random::next_u32() ...; charset[idx] as char }).collect()`:
\* the strings it can return, each with the generator it leaves
MapCollect(charset, length, g, acc) ==
    IF Len(acc) >= length THEN {[g |-> g, str |-> acc]}
    ELSE UNION {MapPush(charset, length, d, acc) : d \in random_next_u32(g)}

random_string(length, g) == MapCollect(CHARSET, length, g, <<>>)

random_number(length, g) == MapCollect(NUMSET, length, g, <<>>)

human_random_string(length, g) == MapCollect(READABLE_CHARSET, length, g, <<>>)

\* random_max_size without the reduction `% maximum_size`
ReduceEncodeUnreduced(d, maximum_size) ==
    [g |-> d.g, str |-> number_to_uid(Resize(d.val, W64))]

\* `let uid = d as usize % maximum_size; number_to_uid(uid)` for the draw d
ReduceEncode(d, maximum_size) ==
    [g |-> d.g, str |-> number_to_uid(Rem(Resize(d.val, W64), maximum_size))]

\* random_max_size taking the 64-bit draw from u32::MAX on (`>=` for `>`)
random_max_size_inclusive(maximum_size, g) ==
    IF Leq(U32Max, maximum_size)
    THEN {ReduceEncode(d, maximum_size) : d \in random_next_u64(g)}
    ELSE {ReduceEncode(d, maximum_size) : d \in random_next_u32(g)}

random_max_size(maximum_size, g) ==
    IF Less(U32Max, maximum_size)
    THEN {ReduceEncode(d, maximum_size) : d \in random_next_u64(g)}
    ELSE {ReduceEncode(d, maximum_size) : d \in random_next_u32(g)}

-----------------------------------------------------------------------------
(* src/src/lib.rs: UidStore.                                               *)

\* what a call that has not returned shows as its result
Pending == [val |-> <<>>, kind |-> "pending"]
Str(v) == [val |-> v, kind |-> "str"]
Bool(v) == [val |-> v, kind |-> "bool"]
Num(v) == [val |-> v, kind |-> "num"]

IssueFns == {"next", "next_human", "next_u16", "next_u32", "next_u64"}
MakeFns == {"make_unique", "make_unique_u16"}

\* HashSet::insert that reports every value as newly inserted
HashSetInsertAlwaysFresh(set, id) == [set |-> set \cup {id}, fresh |-> TRUE]

\* HashSet::insert: the new set, and whether the value was newly inserted
HashSetInsert(set, id) == [set |-> set \cup {id}, fresh |-> id \notin set]

\* HashSet::get
HashSetGet(set, id) == IF id \in set THEN Some(id) ELSE None

\* Option::unwrap
Unwrap(o) == IF o.kind = "some" THEN Str(o.val) ELSE Panic

\* next_u16 drawing below u32::MAX like next_u32
CandidateWide(fn, length, g) ==
    CASE fn = "next"       -> random_string(length, g)
      [] fn = "next_human" -> human_random_string(length, g)
      [] fn = "next_u16"   -> random_max_size(U32Max, g)
      [] fn = "next_u32"   -> random_max_size(U32Max, g)
      [] fn = "next_u64"   -> random_max_size(U64Max, g)

\* the candidates each issue function can generate in one pass of its loop
Candidate(fn, length, g) ==
    CASE fn = "next"       -> random_string(length, g)
      [] fn = "next_human" -> human_random_string(length, g)
      [] fn = "next_u16"   -> random_max_size(U16Max, g)
      [] fn = "next_u32"   -> random_max_size(U32Max, g)
      [] fn = "next_u64"   -> random_max_size(U64Max, g)

\* a pass that takes the colliding id out of the store before it tries again
InsertAndGetEvicting(c, ins) ==
    [items |-> IF ins.fresh THEN ins.set ELSE ins.set \ {c.str},
     g |-> c.g,
     value |-> Unwrap(HashSetGet(ins.set, c.str)),
     id |-> c.str,
     returns |-> ins.fresh]

\* one pass of the loop of an issue function:
\* `let id = ...; if !self.items.insert(id.clone()) { continue; }
\*  return self.items.get(&id).unwrap();`
InsertAndGet(c, ins) ==
    [items |-> ins.set,
     g |-> c.g,
     value |-> Unwrap(HashSetGet(ins.set, c.str)),
     id |-> c.str,
     returns |-> ins.fresh]

InsertCandidate(c, set) == InsertAndGet(c, HashSetInsert(set, c.str))

LoopPass(fn, length, set, g) == {InsertCandidate(c, set) : c \in Candidate(fn, length, g)}

\* the generator as a record, from the variables
G == [s |-> s, seeds |-> nseeds, draws |-> ndraws]

\* what the public call `name` returns when its issue function returns v:
\* make_unique and make_unique_u16 wrap it in Some
Returned(name, v) ==
    IF name \in MakeFns /\ v.kind = "str" THEN Some(v.val) ELSE v

\* a pass without the `continue`: it returns the id whether or not it was new
PassDoneAlways(name, fn, length, p) ==
    /\ s' = p.g.s
    /\ nseeds' = p.g.seeds
    /\ ndraws' = p.g.draws
    /\ items' = p.items
    /\ pc' = "idle"
    /\ len' = 0
    /\ ret' = Returned(name, p.value)
    /\ issued' = Append(issued, p.id)

\* One pass of the loop of issue function fn, on behalf of the public call
\* `name`: it returns, or stays in the loop (pc = fn).
PassDone(name, fn, length, p) ==
    /\ s' = p.g.s
    /\ nseeds' = p.g.seeds
    /\ ndraws' = p.g.draws
    /\ items' = p.items
    /\ IF p.returns
       THEN /\ pc' = "idle"
            /\ len' = 0
            /\ ret' = Returned(name, p.value)
            /\ issued' = Append(issued, p.id)
       ELSE /\ pc' = fn
            /\ len' = length
            /\ ret' = Pending
            /\ issued' = issued

Pass(name, fn, length) ==
    \E p \in LoopPass(fn, length, items, G) : PassDone(name, fn, length, p)

\* a public call of an issue function: its first pass
Issue(fn, length, arg) ==
    /\ pc = "idle"
    /\ ncalls < MaxCalls
    /\ ncalls' = ncalls + 1
    /\ op' = [name |-> fn, arg |-> arg]
    /\ pre' = items
    /\ spre' = s
    /\ Pass(fn, fn, length)
    /\ UNCHANGED <<nmake, tvars>>

next(length) == Issue("next", length, <<length>>)

next_human(length) == Issue("next_human", length, <<length>>)

next_u16 == Issue("next_u16", 0, <<>>)

next_u32 == Issue("next_u32", 0, <<>>)

next_u64 == Issue("next_u64", 0, <<>>)

\* how many draws one pass of the loop of fn makes
DrawsOf(fn, length) == IF fn \in {"next", "next_human"} THEN length ELSE 1

\* a further pass of a loop that did not return (the model follows a loop for
\* as long as the draws of the behaviour stay within MaxDraws)
Retry ==
    /\ pc \in IssueFns
    /\ ndraws + DrawsOf(pc, len) <= MaxDraws
    /\ Pass(op.name, pc, len)
    /\ UNCHANGED <<op, pre, spre, nmake, ncalls, tvars>>

contains(id) ==
    /\ pc = "idle"
    /\ ncalls < MaxCalls
    /\ ncalls' = ncalls + 1
    /\ op' = [name |-> "contains", arg |-> id]
    /\ pre' = items
    /\ spre' = s
    /\ ret' = Bool(id \in items)
    /\ UNCHANGED <<s, nseeds, ndraws, items, pc, len, issued, nmake, tvars>>

size ==
    /\ pc = "idle"
    /\ ncalls < MaxCalls
    /\ ncalls' = ncalls + 1
    /\ op' = [name |-> "size", arg |-> <<>>]
    /\ pre' = items
    /\ spre' = s
    /\ ret' = Num(Cardinality(items))
    /\ UNCHANGED <<s, nseeds, ndraws, items, pc, len, issued, nmake, tvars>>

\* a registration that returns None for an unknown uid without inserting it
RegisterForgetting(name, fn, length, uid) ==
    /\ pc = "idle"
    /\ ncalls < MaxCalls
    /\ ncalls' = ncalls + 1
    /\ nmake' = nmake + 1
    /\ op' = [name |-> name, arg |-> uid]
    /\ pre' = items
    /\ spre' = s
    /\ UNCHANGED tvars
    /\ IF uid \in items
       THEN Pass(name, fn, length)
       ELSE /\ ret' = None
            /\ UNCHANGED <<s, nseeds, ndraws, items, pc, len, issued>>

\* make_unique and make_unique_u16 differ in the issue function they call
\* when the uid is already known: self.next(uid.len()) or self.next_u16()
Register(name, fn, length, uid) ==
    /\ pc = "idle"
    /\ ncalls < MaxCalls
    /\ ncalls' = ncalls + 1
    /\ nmake' = nmake + 1
    /\ op' = [name |-> name, arg |-> uid]
    /\ pre' = items
    /\ spre' = s
    /\ UNCHANGED tvars
    /\ IF uid \in items
       THEN Pass(name, fn, length)
       ELSE /\ items' = HashSetInsert(items, uid).set
            /\ ret' = None
            /\ UNCHANGED <<s, nseeds, ndraws, pc, len, issued>>

\* make_unique asking for as many characters as uid has, not bytes
make_unique_chars(uid) == Register("make_unique", "next", Len(uid), uid)

make_unique(uid) == Register("make_unique", "next", StrLen(uid), uid)

\* make_unique_u16 replacing through next_u32
make_unique_u16_wide(uid) == Register("make_unique_u16", "next_u32", 0, uid)

make_unique_u16(uid) == Register("make_unique_u16", "next_u16", 0, uid)

\* the threads of the process
Threads == 1..NThreads

\* a thread that is in no draw
NoCall == [kind |-> "none", out |-> ZeroWord]

\* the strings the callers register and look up: "", "9" and "é"
Uids == {<<>>, <<57>>, <<233>>}

\* UidStore::new, in a process that has drawn nothing yet
Init ==
    /\ s = <<ZeroWord, ZeroWord, ZeroWord, ZeroWord>>
    /\ nseeds = 0
    /\ ndraws = 0
    /\ items = {}
    /\ pc = "idle"
    /\ len = 0
    /\ op = [name |-> "new", arg |-> <<>>]
    /\ ret = Pending
    /\ pre = {}
    /\ spre = <<ZeroWord, ZeroWord, ZeroWord, ZeroWord>>
    /\ issued = <<>>
    /\ nmake = 0
    /\ ncalls = 0
    /\ lock = 0
    /\ tpc = [t \in Threads |-> "idle"]
    /\ tloc = [t \in Threads |-> NoCall]
    /\ done = <<>>

Next ==
    \/ \E length \in 0..MaxLen : next(length)
    \/ \E length \in 0..MaxLen : next_human(length)
    \/ next_u16
    \/ next_u32
    \/ next_u64
    \/ Retry
    \/ \E uid \in Uids : make_unique(uid)
    \/ \E uid \in Uids : make_unique_u16(uid)
    \/ \E id \in Uids : contains(id)
    \/ size

Spec == Init /\ [][Next]_vars

-----------------------------------------------------------------------------
(* Properties of UidStore, under Spec.                                     *)

\* C1: on a fresh store on which only issue calls (next, next_human, next_u16,
\* next_u32, next_u64) were made, the k strings returned so far are pairwise
\* distinct, the store holds exactly k strings, and size() returns k.
C1_Uniqueness ==
    nmake = 0 =>
        /\ \A i, j \in 1..Len(issued) : i # j => issued[i] # issued[j]
        /\ Cardinality(items) = Len(issued)
        /\ (pc = "idle" /\ op.name = "size") => ret = Num(Len(issued))

\* two issue calls have returned, one of them after a candidate collided
C1_Witness ==
    /\ nmake = 0
    /\ pc = "idle"
    /\ Len(issued) = 2
    /\ ndraws >= 3
    /\ op.name = "next"

\* C2: in every step of every operation the item set only grows, every string
\* an issue call has returned is a member of it, and the lookup
\* items.get(&id).unwrap() after an insert never panics.
C2_SetOnlyGrows ==
    [][ /\ items \subseteq items'
        /\ \A i \in 1..Len(issued') : issued'[i] \in items'
        /\ ret'.kind # "panic" ]_vars

\* a string was issued, and the store has grown by a registered one since
C2_Witness ==
    /\ Len(issued) = 1
    /\ nmake = 1
    /\ op.name \in MakeFns
    /\ Cardinality(items) = 2
    /\ issued[1] \in items

\* C3: make_unique(uid) on a store that does not contain uid returns None,
\* inserts exactly uid (the store grows by one, the other members stay) and
\* consumes no draw of the generator.
C3_MakeUniqueFresh ==
    [][ (ncalls' = ncalls + 1 /\ op'.name = "make_unique" /\ op'.arg \notin items)
        => /\ ret' = None
           /\ items' = items \cup {op'.arg}
           /\ Cardinality(items') = Cardinality(items) + 1
           /\ s' = s
           /\ nseeds' = nseeds
           /\ ndraws' = ndraws ]_vars

\* make_unique of an unknown uid has returned, on a store that held a string
\* already and whose generator had drawn
C3_Witness ==
    /\ pc = "idle"
    /\ op.name = "make_unique"
    /\ op.arg \notin pre
    /\ pre # {}
    /\ ndraws > 0
    /\ ret = None
    /\ items = pre \cup {op.arg}

\* C4: make_unique(uid) on a store that contains uid, when it returns, returns
\* Some(r) where r is as long as uid (str::len), differs from uid, was not in
\* the store before the call and is in it afterwards; uid stays in the store
\* and the store grows by exactly one.
C4_MakeUniqueReplacement ==
    (pc = "idle" /\ op.name = "make_unique" /\ op.arg \in pre) =>
        /\ ret.kind = "some"
        /\ StrLen(ret.val) = StrLen(op.arg)
        /\ ret.val # op.arg
        /\ ret.val \notin pre
        /\ ret.val \in items
        /\ op.arg \in items
        /\ items = pre \cup {ret.val}
        /\ Cardinality(items) = Cardinality(pre) + 1

\* make_unique("é") has returned a replacement of two characters
C4_Witness ==
    /\ pc = "idle"
    /\ op.name = "make_unique"
    /\ op.arg = <<233>>
    /\ op.arg \in pre
    /\ ret.kind = "some"
    /\ Len(ret.val) = 2

\* C8: every string returned by next_u16 decodes to a number <= 65535, by
\* next_u32 to one <= u32::MAX, by next_u64 to one <= u64::MAX, and every
\* replacement returned by a colliding make_unique_u16 to one <= 65535.
C8_BoundedRange ==
    /\ (pc = "idle" /\ op.name = "next_u16") =>
           /\ uid_to_number(ret.val, TRUE).kind = "some"
           /\ Leq(uid_to_number(ret.val, TRUE).val, U16Max)
    /\ (pc = "idle" /\ op.name = "next_u32") =>
           /\ uid_to_number(ret.val, TRUE).kind = "some"
           /\ Leq(uid_to_number(ret.val, TRUE).val, U32Max)
    /\ (pc = "idle" /\ op.name = "next_u64") =>
           /\ uid_to_number(ret.val, TRUE).kind = "some"
           /\ Leq(uid_to_number(ret.val, TRUE).val, U64Max)
    /\ (pc = "idle" /\ op.name = "make_unique_u16" /\ op.arg \in pre) =>
           /\ ret.kind = "some"
           /\ uid_to_number(ret.val, TRUE).kind = "some"
           /\ Leq(uid_to_number(ret.val, TRUE).val, U16Max)

\* a colliding make_unique_u16 has returned a replacement of three characters
C8_Witness ==
    /\ pc = "idle"
    /\ op.name = "make_unique_u16"
    /\ op.arg \in pre
    /\ ret.kind = "some"
    /\ Len(ret.val) = 3

\* C13: the first next(0) on a store without "" returns "" and records it; on
\* a store that contains "", a zero-length request (next(0), next_human(0) or
\* make_unique("")) does not return from its first pass nor from any retry,
\* and leaves the set as it is.
C13_ZeroLength ==
    [][ /\ (ncalls' = ncalls + 1 /\ op' = [name |-> "next", arg |-> <<0>>]
                /\ <<>> \notin items)
           => (pc' = "idle" /\ ret' = Str(<<>>) /\ items' = items \cup {<<>>})
        /\ ( /\ \/ (op'.name \in {"next", "next_human"} /\ op'.arg = <<0>>)
                \/ (op'.name = "make_unique" /\ op'.arg = <<>>)
             /\ ncalls' = ncalls + 1 \/ pc # "idle"
             /\ <<>> \in items )
           => (pc' # "idle" /\ ret' = Pending /\ items' = items) ]_vars

\* next(0) has returned "", and a second next(0) is retrying
C13_Witness ==
    /\ issued = << <<>> >>
    /\ op = [name |-> "next", arg |-> <<0>>]
    /\ pc = "next"
    /\ len = 0
    /\ ret = Pending
    /\ items = {<<>>}

\* C14: make_unique_u16(uid) on a store that contains uid returns Some(r),
\* where r was not in the store, differs from uid, is added to the store, and
\* is a next_u16 identifier: the encoding of a number of the 16-bit range,
\* whatever the length of uid.  On a store that does not contain uid it
\* inserts uid and returns None.
C14_MakeUniqueU16 ==
    /\ (pc = "idle" /\ op.name = "make_unique_u16" /\ op.arg \in pre) =>
           /\ ret.kind = "some"
           /\ ret.val \notin pre
           /\ ret.val # op.arg
           /\ items = pre \cup {ret.val}
           /\ uid_to_number(ret.val, TRUE).kind = "some"
           /\ Leq(uid_to_number(ret.val, TRUE).val, U16Max)
           /\ ret.val = number_to_uid(uid_to_number(ret.val, TRUE).val)
    /\ (pc = "idle" /\ op.name = "make_unique_u16" /\ op.arg \notin pre) =>
           /\ ret = None
           /\ items = pre \cup {op.arg}

\* make_unique_u16("9") on a store that held "9" has returned a replacement of
\* three characters
C14_Witness ==
    /\ pc = "idle"
    /\ op = [name |-> "make_unique_u16", arg |-> <<57>>]
    /\ <<57>> \in pre
    /\ ret.kind = "some"
    /\ Len(ret.val) = 3
    /\ Cardinality(items) = 2

\* number_to_uid(n) for n in 0..65534, digit by digit: one, two or three
\* symbols, the least significant first, the last of two or three never 'A'
U16Encodings ==
    {<<CHARSET[a + 1]>> : a \in 0..61}
    \cup {<<CHARSET[a + 1], CHARSET[b + 1]>> : a \in 0..61, b \in 1..61}
    \cup {<<CHARSET[x[1] + 1], CHARSET[x[2] + 1], CHARSET[x[3] + 1]>> :
            x \in {y \in (0..61) \X (0..61) \X (1..17) :
                     y[1] + 62 * y[2] + 62 * 62 * y[3] < 65535}}

\* the loop the call in `op` has entered, if it has entered one: its issue
\* function and the length it generates
NoLoop == [length |-> 0, fn |-> "none"]
LoopOf ==
    CASE op.name \in {"next", "next_human"} -> [length |-> op.arg[1], fn |-> op.name]
      [] op.name \in {"next_u16", "next_u32", "next_u64"} -> [length |-> 0, fn |-> op.name]
      [] op.name = "make_unique" /\ op.arg \in pre -> [length |-> StrLen(op.arg),
                                                       fn |-> "next"]
      [] op.name = "make_unique_u16" /\ op.arg \in pre -> [length |-> 0, fn |-> "next_u16"]
      [] OTHER -> NoLoop

\* the store `set` holds every string the generator of the loop can produce:
\* the encodings of 0..65534 for next_u16, the empty string for length 0
Exhausted(loop, set) ==
    \/ loop.fn = "next_u16" /\ U16Encodings \subseteq set
    \/ loop.fn \in {"next", "next_human"} /\ loop.length = 0 /\ <<>> \in set

-----------------------------------------------------------------------------
(* The generators called on their own, as the crate's users and its tests  *)
(* call them (test_random), and the two draws they are built on.           *)

\* a call of a generator that leaves the generator c.g and returns v
Generated(name, arg, c, v) ==
    /\ s' = c.g.s
    /\ nseeds' = c.g.seeds
    /\ ndraws' = c.g.draws
    /\ op' = [name |-> name, arg |-> arg]
    /\ ret' = v
    /\ spre' = s
    /\ UNCHANGED <<items, pc, len, pre, issued, nmake, ncalls, tvars>>

RandomString(length) ==
    /\ ndraws + length <= MaxDraws
    /\ \E c \in random_string(length, G) :
           Generated("random_string", <<length>>, c, Str(c.str))

RandomNumber(length) ==
    /\ ndraws + length <= MaxDraws
    /\ \E c \in random_number(length, G) :
           Generated("random_number", <<length>>, c, Str(c.str))

HumanRandomString(length) ==
    /\ ndraws + length <= MaxDraws
    /\ \E c \in human_random_string(length, G) :
           Generated("human_random_string", <<length>>, c, Str(c.str))

\* the bounds random_max_size is called with: 1, 62, and the three of UidStore
Maxima == {FromNat(1, W64), FromNat(62, W64), U16Max, U32Max, U64Max}

RandomMaxSize(maximum_size) ==
    /\ ndraws + 1 <= MaxDraws
    /\ \E c \in random_max_size(maximum_size, G) :
           Generated("random_max_size", maximum_size, c, Str(c.str))

NextU32 ==
    /\ ndraws + 1 <= MaxDraws
    /\ \E d \in random_next_u32(G) : Generated("next_u32", <<>>, d, Num(d.val))

NextU64 ==
    /\ ndraws + 1 <= MaxDraws
    /\ \E d \in random_next_u64(G) : Generated("next_u64", <<>>, d, Num(d.val))

NextRandom ==
    \/ \E length \in 0..MaxStr : RandomString(length)
    \/ \E length \in 0..MaxStr : RandomNumber(length)
    \/ \E length \in 0..MaxStr : HumanRandomString(length)
    \/ \E maximum_size \in Maxima : RandomMaxSize(maximum_size)
    \/ NextU32
    \/ NextU64

SpecRandom == Init /\ [][NextRandom]_vars

-----------------------------------------------------------------------------
(* The codec applied to numbers and strings, as test_number_to_uid does.   *)

\* 9902, 94029, 2294029 and 43494029 of the tests; 62^2 - 1 and 62^2; the
\* largest u16, u32 and usize, and 2^32
TestNumbers ==
    { FromDec(<<9, 9, 0, 2>>, W64), FromDec(<<9, 4, 0, 2, 9>>, W64), FromDec(<<2, 2, 9, 4, 0, 2, 9>>, W64),
      FromDec(<<4, 3, 4, 9, 4, 0, 2, 9>>, W64), FromDec(<<3, 8, 4, 3>>, W64), FromDec(<<3, 8, 4, 4>>, W64),
      U16Max, U32Max, FromDec(<<4, 2, 9, 4, 9, 6, 7, 2, 9, 6>>, W64), U64Max }

\* 62^k, where number_to_uid starts to need k + 1 characters
RECURSIVE Pow62(_)
Pow62(k) == IF k = 0 THEN FromNat(1, W64) ELSE WrappingMul(Pow62(k - 1), 62)

\* 62^k and 62^k - 1 for every k a usize has room for
Powers == UNION {{Pow62(k), Sub(Pow62(k), FromNat(1, W64))} : k \in 1..10}

Numbers == {FromNat(k, W64) : k \in 0..MaxNum} \cup TestNumbers \cup Powers

\* "", "!@#", "A", "B", "0", "sjC", "mRO", "BA", "a b", "é", and eleven 9s
\* (62^11 - 1, more than a usize holds)
TestStrings ==
    { <<>>, <<33, 64, 35>>, <<65>>, <<66>>, <<48>>, <<115, 106, 67>>, <<109, 82, 79>>, <<66, 65>>, <<97, 32, 98>>, <<233>>, <<57, 57, 57, 57, 57, 57, 57, 57, 57, 57, 57>> }

Coded(name, arg, v) ==
    /\ pc = "idle"
    /\ op' = [name |-> name, arg |-> arg]
    /\ ret' = v
    /\ spre' = s
    /\ UNCHANGED <<s, nseeds, ndraws, items, pc, len, pre, issued, nmake, ncalls, tvars>>

NumberToUid(n) == Coded("number_to_uid", n, Str(number_to_uid(n)))

UidToNumber(uid, checked) == Coded("uid_to_number", uid, uid_to_number(uid, checked))

\* `uid_to_number(&number_to_uid(n))`
RoundTrip(n, checked) == Coded("round_trip", n, uid_to_number(number_to_uid(n), checked))

NextCodec ==
    \/ \E n \in Numbers : NumberToUid(n)
    \/ \E uid \in TestStrings, checked \in BOOLEAN : UidToNumber(uid, checked)
    \/ \E n \in Numbers, checked \in BOOLEAN : RoundTrip(n, checked)

SpecCodec == Init /\ [][NextCodec]_vars

-----------------------------------------------------------------------------
(* Properties of the codec, under SpecCodec.                               *)

\* C5: for every n representable as usize, uid_to_number(number_to_uid(n)) is
\* Some(n), whether or not the build checks arithmetic overflow.
C5_RoundTrip == op.name = "round_trip" => ret = Some(op.arg)

\* usize::MAX has made the round trip
C5_Witness ==
    /\ op.name = "round_trip"
    /\ op.arg = U64Max
    /\ ret = Some(U64Max)

\* C6: uid_to_number("") and uid_to_number("!@#") both return None.
C6_DecodeRejection ==
    (op.name = "uid_to_number" /\ op.arg \in {<<>>, <<33, 64, 35>>}) => ret = None

\* the value of the character c as the claim gives it: its index in CHARSET
\* (A-Z are 0..25, a-z 26..51, 0-9 52..61), or -1 when c is not in CHARSET
SymbolValue(c) ==
    IF \E k \in 1..Len(CHARSET) : CHARSET[k] = c
    THEN (CHOOSE k \in 1..Len(CHARSET) : CHARSET[k] = c) - 1
    ELSE -1

\* the positional value of the valid string uid, first character least
\* significant, as a number of 2 * W64 bits (room for 21 characters)
RECURSIVE PositionalValue(_, _, _)
PositionalValue(uid, i, acc) ==
    IF i = 0 \/ acc = <<>> THEN acc
    ELSE PositionalValue(uid, i - 1, WrappingMulAdd(acc, 62, SymbolValue(uid[i])))

\* C15: uid_to_number returns None exactly when the string has a character
\* outside A-Z, a-z, 0-9, and for a string of those characters only, of any
\* length, it returns Some of the positional value, with no overflow or
\* other failure.
C15_DecodeTotal ==
    op.name = "uid_to_number" =>
        /\ ret = None <=> \E i \in 1..Len(op.arg) : SymbolValue(op.arg[i]) < 0
        /\ (\A i \in 1..Len(op.arg) : SymbolValue(op.arg[i]) >= 0) =>
               /\ ret.kind = "some"
               /\ Resize(ret.val, 2 * W64)
                      = PositionalValue(op.arg, Len(op.arg), Zeros(2 * W64))

-----------------------------------------------------------------------------
(* Properties of the generators, under SpecRandom.                         *)

\* C7: no string human_random_string returns contains any of I, l, 1, O, 0,
\* whatever the generator draws.
C7_HumanExclusion ==
    op.name = "human_random_string" =>
        \A i \in 1..Len(ret.val) : ret.val[i] \notin Confusable

\* C9: for every length >= 1, random_string, human_random_string and
\* random_number return a string of exactly `length` characters, each of
\* them a character of the generator's alphabet.
C9_LengthContract ==
    /\ (op.name = "random_string" /\ op.arg[1] >= 1) =>
           /\ Len(ret.val) = op.arg[1]
           /\ \A i \in 1..Len(ret.val) : \E k \in 1..Len(CHARSET) : ret.val[i] = CHARSET[k]
    /\ (op.name = "human_random_string" /\ op.arg[1] >= 1) =>
           /\ Len(ret.val) = op.arg[1]
           /\ \A i \in 1..Len(ret.val) :
                  \E k \in 1..Len(READABLE_CHARSET) : ret.val[i] = READABLE_CHARSET[k]
    /\ (op.name = "random_number" /\ op.arg[1] >= 1) =>
           /\ Len(ret.val) = op.arg[1]
           /\ \A i \in 1..Len(ret.val) : \E k \in 1..Len(NUMSET) : ret.val[i] = NUMSET[k]

\* random_number(3) has returned three digits
C9_Witness ==
    /\ op.name = "random_number"
    /\ op.arg = <<3>>
    /\ ret.kind = "str"
    /\ Len(ret.val) = 3
    /\ \A i \in 1..3 : ret.val[i] >= 48 /\ ret.val[i] <= 57

\* C10: seed() runs on the first draw of the process and never again: after
\* any number of draws the generator has been seeded exactly once.
C10_SeededOnce ==
    /\ ndraws = 0 => nseeds = 0
    /\ ndraws >= 1 => nseeds = 1

\* the generator before the call in `op`: RND.s, with counters one draw back
GPre == [s |-> spre, seeds |-> 0, draws |-> ndraws - 1]

\* C16: random_max_size(m), m > 0, makes a single draw d, a next_u64 when
\* m > u32::MAX and a next_u32 otherwise, and returns number_to_uid(d mod m);
\* the string decodes to a value below m, never to m itself.
C16_RandomMaxSize ==
    op.name = "random_max_size" =>
        /\ \E d \in (IF Less(U32Max, op.arg) THEN random_next_u64(GPre)
                     ELSE random_next_u32(GPre)) :
               /\ s = d.g.s
               /\ ret = Str(number_to_uid(Rem(Resize(d.val, W64), op.arg)))
        /\ uid_to_number(ret.val, TRUE).kind = "some"
        /\ Less(uid_to_number(ret.val, TRUE).val, op.arg)

\* random_max_size(u32::MAX) has returned, not as the first draw
C16_Witness ==
    /\ op.name = "random_max_size"
    /\ op.arg = U32Max
    /\ ret.kind = "str"
    /\ ndraws >= 2
    /\ Len(ret.val) >= 5

\* the states a draw entered with RND.s = spre works on: spre itself, or what
\* seed() makes of it when s[0] is 0
Seeded == IF spre[1] = ZeroWord THEN {seed(now) : now \in Times} ELSE {spre}

\* rotate_left(s1 * 5, 7) * 9 modulo 2^64, the rotation by its bit positions
Scrambled(st) ==
    LET x5 == WrappingMul(st[2], 5)
        r  == SubSeq(x5, W64 - 6, W64) \o SubSeq(x5, 1, W64 - 7)
    IN WrappingMul(r, 9)

\* the state after t = s1<<17; s2^=s0; s3^=s1; s1^=s2; s0^=s3; s2^=t;
\* s3 = rotate_left(s3, 45), each word in terms of the words before
Stepped(st) ==
    <<Xor(st[1], Xor(st[4], st[2])),
      Xor(st[2], Xor(st[3], st[1])),
      Xor(Xor(st[3], st[1]), Shl(st[2], 17)),
      RotateLeft(Xor(st[4], st[2]), 45)>>

\* C17: a draw on the seeded state (s0,s1,s2,s3) returns
\* rotate_left(s1 * 5, 7) * 9 and leaves the state the update sequence gives;
\* next_u32 returns the top 32 bits of one such draw and leaves the state
\* advanced once.
C17_DrawTransform ==
    op.name \in {"next_u64", "next_u32"} =>
        \E st \in Seeded :
            /\ s = Stepped(st)
            /\ s # Stepped(Stepped(st))
            /\ ret = Num(IF op.name = "next_u64" THEN Scrambled(st)
                         ELSE SubSeq(Scrambled(st), W32 + 1, W64))

\* next_u32 has returned from a state that needed no seeding
C17_Witness ==
    /\ op.name = "next_u32"
    /\ ret.kind = "num"
    /\ Len(ret.val) = W32
    /\ spre[1] # ZeroWord
    /\ ndraws >= 2

\* the symbols of an alphabet
Symbols(alphabet) == {alphabet[k] : k \in 1..Len(alphabet)}

\* the alphabet `alphabet` has n symbols, no two of them equal
HasSymbols(alphabet, n) == Len(alphabet) = n /\ Cardinality(Symbols(alphabet)) = n

-----------------------------------------------------------------------------
(* The codec next to a store of numeric uids: strings are decoded and      *)
(* encoded again, and a store issues and registers uids of numbers.        *)

\* 0, 1, 61, 62, 2 * 62, 62^2, the largest u16 and the largest usize
CanonNumbers ==
    { FromNat(0, W64), FromNat(1, W64), FromNat(61, W64), FromNat(62, W64),
      FromNat(124, W64), FromNat(3844, W64), U16Max, U64Max }

\* "A", "AA", "B", "BA", "BAA", "AB", "9A", "sjC", "sjCA", "a b", the
\* encoding of the largest usize and the same with an 'A' after it
CanonStrings ==
    { <<65>>, <<65, 65>>, <<66>>, <<66, 65>>, <<66, 65, 65>>, <<65, 66>>, <<57, 65>>,
      <<115, 106, 67>>, <<115, 106, 67, 65>>, <<97, 32, 98>>,
      number_to_uid(U64Max), Append(number_to_uid(U64Max), 65) }

\* `uid_to_number(s).map(number_to_uid)`
MapEncode(o) == IF o.kind = "some" THEN Some(number_to_uid(o.val)) ELSE o

Reencode(uid, checked) == Coded("reencode", uid, MapEncode(uid_to_number(uid, checked)))

\* the generator of a process that has drawn nothing
G0 == [s |-> <<ZeroWord, ZeroWord, ZeroWord, ZeroWord>>, seeds |-> 0, draws |-> 0]

\* the first candidate of next_u16 in such a process, for each clock reading
FirstU16 == {c.str : c \in Candidate("next_u16", 0, G0)}

\* the uids the callers register: "B", "BA", and uids that next_u16 then
\* generates
NumericUids == {<<66>>, <<66, 65>>} \cup FirstU16

\* the codec reads neither the store nor the generator: its calls come first
NextCanon ==
    \/ ncalls = 0 /\ \E n \in CanonNumbers : NumberToUid(n)
    \/ ncalls = 0 /\ \E uid \in CanonStrings, checked \in BOOLEAN : Reencode(uid, checked)
    \/ next_u16
    \/ next_u32
    \/ next_u64
    \/ Retry
    \/ \E uid \in NumericUids : make_unique_u16(uid)

SpecCanon == Init /\ [][NextCanon]_vars

-----------------------------------------------------------------------------
(* Properties of the codec and of numeric uids, under SpecCanon.           *)

\* the string ends in 'A'
EndsInA(str) == str # <<>> /\ str[Len(str)] = 65

\* the string is not empty, has base62 symbols only and a value below 2^64
FitsUsize(str) ==
    /\ str # <<>>
    /\ \A i \in 1..Len(str) : SymbolValue(str[i]) >= 0
    /\ SubSeq(PositionalValue(str, Len(str), Zeros(2 * W64)), W64 + 1, 2 * W64) = Zeros(W64)

\* C20: number_to_uid(0) is "A" and number_to_uid(n) for n > 0 does not end
\* in 'A'; for a non-empty base62 string s with a value that fits in usize,
\* number_to_uid(uid_to_number(s)) is s exactly when s is "A" or does not end
\* in 'A'; and the strings issued by next_u16, next_u32 and next_u64 decode
\* to pairwise distinct numbers.
C20_Canonical ==
    /\ op.name = "number_to_uid" =>
           /\ op.arg = ZeroWord => ret = Str(<<65>>)
           /\ op.arg # ZeroWord => ret.kind = "str" /\ ~EndsInA(ret.val)
    /\ (op.name = "reencode" /\ FitsUsize(op.arg)) =>
           /\ ret.kind = "some"
           /\ ret.val = op.arg <=> (op.arg = <<65>> \/ ~EndsInA(op.arg))
    /\ \A i, j \in 1..Len(issued) :
           /\ uid_to_number(issued[i], TRUE).kind = "some"
           /\ i # j => uid_to_number(issued[i], TRUE) # uid_to_number(issued[j], TRUE)

\* the store holds "B" and "BA", both registered with make_unique_u16 and
\* both decoding to 1
C20_Witness ==
    /\ op.name = "make_unique_u16"
    /\ ret = None
    /\ {<<66>>, <<66, 65>>} \subseteq items
    /\ uid_to_number(<<66>>, TRUE) = Some(FromNat(1, W64))
    /\ uid_to_number(<<66, 65>>, TRUE) = Some(FromNat(1, W64))

-----------------------------------------------------------------------------
(* src/src/random.rs: random::next_u32 / next_u64 called from several      *)
(* threads.  `RND.lock().unwrap().next_u64()` is followed statement by     *)
(* statement: the lock is taken, the body of PseudoRandom::next_u64 runs   *)
(* (seed check, output, state update), and the guard, a temporary, is      *)
(* dropped when the statement ends.                                        *)

\* where a thread is while it holds the guard
Critical == {"check", "output", "update", "unlock"}

\* how many draws have been started
Started == Len(done) + Cardinality({t \in Threads : tpc[t] # "idle"})

\* a thread enters random::next_u32 ("u32") or random::next_u64 ("u64")
ThreadCall(t, kind) ==
    /\ tpc[t] = "idle"
    /\ Started < MaxThreadCalls
    /\ tpc' = [tpc EXCEPT ![t] = "lock"]
    /\ tloc' = [tloc EXCEPT ![t] = [kind |-> kind, out |-> ZeroWord]]
    /\ UNCHANGED <<s, nseeds, ndraws, lock, done, storeVars>>

\* a lock() that does not wait for the holder to release
AcquireUnguarded(t) ==
    /\ tpc[t] = "lock"
    /\ lock' = t
    /\ tpc' = [tpc EXCEPT ![t] = "check"]
    /\ UNCHANGED <<s, nseeds, ndraws, tloc, done, storeVars>>

\* `RND.lock().unwrap()`: blocks until the Mutex is free.  No thread panics
\* while it holds the guard, so the Mutex is never poisoned and unwrap succeeds.
Acquire(t) ==
    /\ tpc[t] = "lock"
    /\ lock = 0
    /\ lock' = t
    /\ tpc' = [tpc EXCEPT ![t] = "check"]
    /\ UNCHANGED <<s, nseeds, ndraws, tloc, done, storeVars>>

\* `if self.s[0] == 0 { self.seed(); }`
SeedCheck(t) ==
    /\ tpc[t] = "check"
    /\ IF NeedsSeed(s)
       THEN /\ \E now \in Times : s' = seed(now)
            /\ nseeds' = nseeds + 1
       ELSE UNCHANGED <<s, nseeds>>
    /\ tpc' = [tpc EXCEPT ![t] = "output"]
    /\ UNCHANGED <<ndraws, lock, tloc, done, storeVars>>

\* `let next = self.s[1].wrapping_mul(5).rotate_left(7).wrapping_mul(9);`
ComputeOutput(t) ==
    /\ tpc[t] = "output"
    /\ tloc' = [tloc EXCEPT ![t].out = Output(s)]
    /\ tpc' = [tpc EXCEPT ![t] = "update"]
    /\ UNCHANGED <<s, nseeds, ndraws, lock, done, storeVars>>

\* `let v = self.s[1] << 17; self.s[2] ^= self.s[0]; ...
\*  self.s[3] = self.s[3].rotate_left(45);`
UpdateState(t) ==
    /\ tpc[t] = "update"
    /\ s' = Advance(s)
    /\ ndraws' = ndraws + 1
    /\ tpc' = [tpc EXCEPT ![t] = "unlock"]
    /\ UNCHANGED <<nseeds, lock, tloc, done, storeVars>>

\* what the call of thread t returns: `next`, or `(next >> 32) as u32`
Result(t) ==
    IF tloc[t].kind = "u32" THEN ShrNarrow(tloc[t].out, 32) ELSE tloc[t].out

\* a return that keeps the guard alive
ReleaseLeaking(t) ==
    /\ tpc[t] = "unlock"
    /\ done' = Append(done, [val |-> Result(t), kind |-> tloc[t].kind])
    /\ tpc' = [tpc EXCEPT ![t] = "idle"]
    /\ tloc' = [tloc EXCEPT ![t] = NoCall]
    /\ UNCHANGED <<s, nseeds, ndraws, lock, storeVars>>

\* the value is returned and the guard dropped
Release(t) ==
    /\ tpc[t] = "unlock"
    /\ lock' = 0
    /\ done' = Append(done, [val |-> Result(t), kind |-> tloc[t].kind])
    /\ tpc' = [tpc EXCEPT ![t] = "idle"]
    /\ tloc' = [tloc EXCEPT ![t] = NoCall]
    /\ UNCHANGED <<s, nseeds, ndraws, storeVars>>

\* where a thread that is at position p of a draw is after its next step
After(p) ==
    CASE p = "lock"   -> "check"
      [] p = "check"  -> "output"
      [] p = "output" -> "update"
      [] p = "update" -> "unlock"
      [] p = "unlock" -> "idle"

\* A step of thread t inside a draw it has started, told by the position of
\* the thread alone: the steps of NextThreads that are Acquire(t), SeedCheck(t),
\* ComputeOutput(t), UpdateState(t) or Release(t) are exactly those that
\* satisfy it, and it is enabled exactly when one of them is.
ThreadStep(t) ==
    /\ tpc[t] # "idle"
    /\ tpc[t] = "lock" => lock = 0
    /\ tpc' = [tpc EXCEPT ![t] = After(tpc[t])]

NextThreads ==
    \/ \E t \in Threads, kind \in {"u32", "u64"} : ThreadCall(t, kind)
    \/ \E t \in Threads : Acquire(t)
    \/ \E t \in Threads : SeedCheck(t)
    \/ \E t \in Threads : ComputeOutput(t)
    \/ \E t \in Threads : UpdateState(t)
    \/ \E t \in Threads : Release(t)

\* The scheduler lets every thread that can take a step of its draw take one
\* eventually; nothing obliges a thread to start a draw.
SpecThreads ==
    Init /\ [][NextThreads]_vars /\ \A t \in Threads : WF_tpc(ThreadStep(t))

-----------------------------------------------------------------------------
(* Properties of concurrent draws, under SpecThreads.                      *)

\* the state of RND before the first draw
RND0 == <<ZeroWord, ZeroWord, ZeroWord, ZeroWord>>

\* The draws of `done`, made one after another in the order `order` from the
\* state st by PseudoRandom::next_u32 / next_u64, can return the values
\* recorded and leave the generator in the state s.
RECURSIVE SerialRun(_, _, _)
SerialRun(order, i, st) ==
    IF i > Len(done) THEN st = s
    ELSE \E d \in (IF done[order[i]].kind = "u32" THEN PseudoRandom_next_u32(st)
                   ELSE PseudoRandom_next_u64(st)) :
             /\ d.val = done[order[i]].val
             /\ SerialRun(order, i + 1, d.s)

\* C11: the seed check, the output computation and the state update of a draw
\* run only under the RND lock, held by one thread at a time, and whenever no
\* draw is in its critical section the state of the generator and the values
\* returned so far are those of the same draws made in some sequential order.
C11_DrawsAtomic ==
    /\ \A t \in Threads : tpc[t] \in Critical => lock = t
    /\ (\A t \in Threads : tpc[t] \notin Critical) =>
           \E order \in Permutations(1..Len(done)) : SerialRun(order, 1, RND0)

\* three draws of both kinds have returned, the third of them after a re-seed
C11_Witness ==
    /\ \A t \in Threads : tpc[t] = "idle"
    /\ Len(done) = 3
    /\ done[1].kind # done[2].kind
    /\ nseeds = 2

\* C12: a thread holds the RND lock exactly while it is in the body of its
\* draw: it takes the lock only when the lock is free (never while it holds
\* it) and has released it when it returns; and with every thread scheduled
\* fairly, a thread that has started a draw eventually returns from it.
C12_NoDeadlock ==
    /\ [](\A t \in Threads : tpc[t] \in Critical <=> lock = t)
    /\ [][\A t \in Threads : (lock' = t /\ lock # t) => (lock = 0 /\ tpc[t] = "lock")]_vars
    /\ \A t \in Threads : (tpc[t] # "idle") ~> (tpc[t] = "idle")

\* thread 1 waits for the lock that thread 2 holds, after an earlier draw
C12_Witness ==
    /\ tpc[1] = "lock"
    /\ lock = 2
    /\ tpc[2] = "update"
    /\ Len(done) >= 1

=============================================================================
